---- MODULE Spec2Model ----
(***************************************************************************)
(* Model of the migration engine of the desktop persistence layer          *)
(* (packages/desktop/src-tauri/src/db/migration.rs).                       *)
(*                                                                         *)
(* Text (file names, error messages) is a sequence of byte values, so that *)
(* the sort of the file list, the extension test and the substring test    *)
(* on the error message are computed the way the code computes them.       *)
(***************************************************************************)
EXTENDS Integers, Sequences, FiniteSets, TLC

\* ------------------------------------------------------------------ bounds
\* directory entries
MaxFiles == 2
\* lines of one migration file
MaxLines == 2
\* calls of run()
MaxRuns == 2

\* -------------------------------------------------------------------- text
\* "already exists"
AlreadyExists == <<97, 108, 114, 101, 97, 100, 121, 32, 101, 120, 105, 115, 116, 115>>
\* "sql"
SqlExt == <<115, 113, 108>>
\* "."
Dot == <<46>>
\* ": "
ColonSp == <<58, 32>>
\* "__migration__"
MIGRATION_TABLE_NAME == <<95, 95, 109, 105, 103, 114, 97, 116, 105, 111, 110, 95, 95>>
\* "Migration folder not found: "
FolderNotFoundMsg == <<77, 105, 103, 114, 97, 116, 105, 111, 110, 32, 102, 111, 108, 100, 101, 114, 32, 110, 111, 116, 32, 102, 111, 117, 110, 100, 58, 32>>
\* "Failed to read migration "
ReadFailedMsg == <<70, 97, 105, 108, 101, 100, 32, 116, 111, 32, 114, 101, 97, 100, 32, 109, 105, 103, 114, 97, 116, 105, 111, 110, 32>>
\* "sql parser error"
ParserErrorMsg == <<115, 113, 108, 32, 112, 97, 114, 115, 101, 114, 32, 101, 114, 114, 111, 114>>
\* "database is locked"
EngineFaultMsg == <<100, 97, 116, 97, 98, 97, 115, 101, 32, 105, 115, 32, 108, 111, 99, 107, 101, 100>>
\* "UNIQUE constraint failed: __migration__.name"
UniqueFailedMsg == <<85, 78, 73, 81, 85, 69, 32, 99, 111, 110, 115, 116, 114, 97, 105, 110, 116, 32, 102, 97, 105, 108, 101, 100, 58, 32>> \o MIGRATION_TABLE_NAME \o <<46, 110, 97, 109, 101>>

\* the directory entries the model draws from, and the bytes of their names
FileNames == {"0001.sql", "0002 already exists.sql", "0001.sql.bak"}
FileBak == "0001.sql.bak"
NameBytes ==
  [n \in FileNames |->
     CASE n = "0001.sql" -> <<48, 48, 48, 49>> \o Dot \o SqlExt
       [] n = "0002 already exists.sql" -> <<48, 48, 48, 50, 32>> \o AlreadyExists \o Dot \o SqlExt
       [] n = "0001.sql.bak" -> <<48, 48, 48, 49>> \o Dot \o SqlExt \o <<46, 98, 97, 107>>]
Bytes(n) == NameBytes[n]

Tables == {"a"}
TableName(t) == IF t = "a" THEN <<97>> ELSE <<98>>

\* the engine's message for CREATE TABLE t when t exists
TableExistsMsg(t) == <<116, 97, 98, 108, 101, 32>> \o TableName(t) \o <<32>> \o AlreadyExists
\* the engine's message for DROP TABLE t when t does not exist
NoSuchTableMsg(t) == <<110, 111, 32, 115, 117, 99, 104, 32, 116, 97, 98, 108, 101, 58, 32>> \o TableName(t)

\* mutant: the whole message is compared instead of searched
Contains_whole(hay, pat) == hay = pat

\* str::contains
Contains(hay, pat) ==
  \E i \in 0..(Len(hay) - Len(pat)) : SubSeq(hay, i + 1, i + Len(pat)) = pat

\* Ord for String: bytewise lexicographic, a proper prefix sorts first
LexLess(s, t) ==
  \E i \in 1..Len(t) :
    /\ i <= Len(s) + 1
    /\ SubSeq(s, 1, i - 1) = SubSeq(t, 1, i - 1)
    /\ \/ i = Len(s) + 1
       \/ i <= Len(s) /\ s[i] < t[i]

\* the order of two file names
NameOrder == {p \in FileNames \X FileNames : LexLess(Bytes(p[1]), Bytes(p[2]))}
NameLess(a, b) == <<a, b>> \in NameOrder

\* Path::extension: the part after the last '.', none when the name has no
\* '.' or only a leading one
Extension(n) ==
  LET name == Bytes(n)
      dots == {i \in 1..Len(name) : name[i] = Dot[1]}
      last == CHOOSE i \in dots : \A j \in dots : j <= i
  IN  IF dots = {} \/ last = 1
      THEN [some |-> FALSE, val |-> <<>>]
      ELSE [some |-> TRUE, val |-> SubSeq(name, last + 1, Len(name))]

\* ------------------------------------------------------------ migration files
\* One line of a migration file: a statement the parser accepts, a
\* "--> statement-breakpoint" marker line, or text the parser rejects.
Statements == [kind : {"create", "drop"}, t : Tables]
MarkerLine == [kind |-> "marker", t |-> "a"]
GarbageLine == [kind |-> "garbage", t |-> "a"]
Lines == Statements \cup {MarkerLine, GarbageLine}

RECURSIVE SeqsUpTo(_, _)
SeqsUpTo(S, n) ==
  IF n = 0 THEN {<<>>}
  ELSE LET shorter == SeqsUpTo(S, n - 1)
       IN  shorter \cup {Append(q, x) : q \in {r \in shorter : Len(r) = n - 1}, x \in S}

\* the texts of a file: up to MaxLines statement and marker lines, or a text
\* that is not SQL
Contents == SeqsUpTo(Lines \ {GarbageLine}, MaxLines) \cup {<<GarbageLine>>}

\* the text of the backup file: a statement that would show if it were run
BakContent == <<[kind |-> "create", t |-> "a"]>>

\* a directory: the text of each entry
Directories ==
  UNION {{d \in [names -> Contents] : FileBak \in names => d[FileBak] = BakContent} :
           names \in {N \in SUBSET FileNames : Cardinality(N) <= MaxFiles}}

\* Vec::sort on the collected names
RECURSIVE SortNames(_)
SortNames(S) ==
  IF S = {} THEN <<>>
  ELSE LET least == CHOOSE x \in S : \A y \in S \ {x} : NameLess(x, y)
       IN  <<least>> \o SortNames(S \ {least})

Ok(v) == [ok |-> TRUE, val |-> v, err |-> <<>>]
Err(e) == [ok |-> FALSE, val |-> <<>>, err |-> e]

\* mutant: the names are returned in descending order
get_migration_files_descending(exists, d) ==
  IF ~exists THEN Err(FolderNotFoundMsg)
  ELSE LET up == SortNames({n \in DOMAIN d : Extension(n) = [some |-> TRUE, val |-> SqlExt]})
       IN  Ok([i \in 1..Len(up) |-> up[Len(up) + 1 - i]])

\* mutant: every name that contains ".sql" is taken
get_migration_files_anywhere(exists, d) ==
  IF ~exists THEN Err(FolderNotFoundMsg)
  ELSE Ok(SortNames({n \in DOMAIN d : Contains(Bytes(n), Dot \o SqlExt)}))

\* get_migration_files: the names with extension "sql", sorted
get_migration_files(exists, d) ==
  IF ~exists THEN Err(FolderNotFoundMsg)
  ELSE Ok(SortNames({n \in DOMAIN d : Extension(n) = [some |-> TRUE, val |-> SqlExt]}))

\* the filter on lines in apply_migration
RECURSIVE CleanedSql(_)
CleanedSql(lines) ==
  IF lines = <<>> THEN <<>>
  ELSE IF Head(lines).kind = "marker" THEN CleanedSql(Tail(lines))
  ELSE <<Head(lines)>> \o CleanedSql(Tail(lines))

\* mutant: a text without any statement is a parse error
parse_sql_rejectEmpty(cleaned) ==
  IF cleaned = <<>> \/ \E i \in 1..Len(cleaned) : cleaned[i].kind = "garbage"
  THEN Err(ParserErrorMsg)
  ELSE Ok(cleaned)

\* Parser::parse_sql: the statements, or an error when some text is not SQL
parse_sql(cleaned) ==
  IF \E i \in 1..Len(cleaned) : cleaned[i].kind = "garbage"
  THEN Err(ParserErrorMsg)
  ELSE Ok(cleaned)

\* ------------------------------------------------------------------ database
\* the engine executing one statement on the schema objs
Execute(stmt, objs) ==
  IF stmt.kind = "create"
  THEN IF stmt.t \in objs THEN Err(TableExistsMsg(stmt.t)) ELSE Ok(objs \cup {stmt.t})
  ELSE IF stmt.t \in objs THEN Ok(objs \ {stmt.t}) ELSE Err(NoSuchTableMsg(stmt.t))

Range(q) == {q[i] : i \in 1..Len(q)}

\* mutant: the lookup never finds the name
is_migration_applied_never(rows, name) == FALSE

\* is_migration_applied: SELECT id FROM __migration__ WHERE name = ? LIMIT 1
is_migration_applied(rows, name) == name \in Range(rows)

\* mutant: the record is not written
mark_migration_applied_lost(rows, name) == rows

\* mark_migration_applied: INSERT OR IGNORE INTO __migration__ (name)
mark_migration_applied(rows, name) ==
  IF name \in Range(rows) THEN rows ELSE Append(rows, name)

\* the statement loop of apply_migration inside the transaction: the schema
\* seen by the transaction after each statement, stopping at the first error
RECURSIVE ExecuteAll(_, _, _, _)
ExecuteAll(name, stmts, txObjs, n) ==
  IF stmts = <<>> THEN [ok |-> TRUE, objs |-> txObjs, err |-> <<>>, execd |-> n]
  ELSE LET r == Execute(Head(stmts), txObjs)
       IN  IF r.ok THEN ExecuteAll(name, Tail(stmts), r.val, n + 1)
           ELSE [ok |-> FALSE, objs |-> txObjs,
                 err |-> Bytes(name) \o ColonSp \o r.err, execd |-> n + 1]

\* mutant: the statements run outside the transaction, so those before a
\* failing one stay
apply_migration_autocommit(name, lines, objs, rows, fault) ==
  LET parsed == parse_sql(CleanedSql(lines))
      none == [ok |-> FALSE, objs |-> objs, rows |-> rows, execd |-> 0,
               err |-> <<>>, cause |-> "none"]
  IN  IF ~parsed.ok THEN [none EXCEPT !.err = parsed.err, !.cause = "parse"]
      ELSE IF fault = "begin" THEN [none EXCEPT !.err = EngineFaultMsg, !.cause = "engine"]
      ELSE LET run == ExecuteAll(name, parsed.val, objs, 0)
           IN  IF ~run.ok
               THEN [none EXCEPT !.err = run.err, !.execd = run.execd, !.objs = run.objs,
                       !.cause = IF parsed.val[run.execd].kind = "create"
                                 THEN "exists" ELSE "missing"]
               ELSE IF fault = "insert"
               THEN [none EXCEPT !.err = EngineFaultMsg, !.execd = run.execd,
                       !.objs = run.objs, !.cause = "engine"]
               ELSE IF name \in Range(rows)
               THEN [none EXCEPT !.err = UniqueFailedMsg, !.execd = run.execd,
                       !.objs = run.objs, !.cause = "engine"]
               ELSE IF fault = "commit"
               THEN [none EXCEPT !.err = EngineFaultMsg, !.execd = run.execd,
                       !.objs = run.objs, !.cause = "engine"]
               ELSE [ok |-> TRUE, objs |-> run.objs, rows |-> Append(rows, name),
                     execd |-> run.execd, err |-> <<>>, cause |-> "none"]

\* apply_migration: parse, begin, execute every statement, insert the
\* tracking record, commit.  Returning an error drops the transaction, which
\* rolls it back.  fault names the engine call that fails for a reason of
\* its own (I/O, lock), if any.
apply_migration(name, lines, objs, rows, fault) ==
  LET parsed == parse_sql(CleanedSql(lines))
      none == [ok |-> FALSE, objs |-> objs, rows |-> rows, execd |-> 0,
               err |-> <<>>, cause |-> "none"]
  IN  IF ~parsed.ok THEN [none EXCEPT !.err = parsed.err, !.cause = "parse"]
      ELSE IF fault = "begin" THEN [none EXCEPT !.err = EngineFaultMsg, !.cause = "engine"]
      ELSE LET run == ExecuteAll(name, parsed.val, objs, 0)
           IN  IF ~run.ok
               THEN [none EXCEPT !.err = run.err, !.execd = run.execd,
                       !.cause = IF parsed.val[run.execd].kind = "create"
                                 THEN "exists" ELSE "missing"]
               ELSE IF fault = "insert"
               THEN [none EXCEPT !.err = EngineFaultMsg, !.execd = run.execd, !.cause = "engine"]
               ELSE IF name \in Range(rows)
               THEN [none EXCEPT !.err = UniqueFailedMsg, !.execd = run.execd, !.cause = "engine"]
               ELSE IF fault = "commit"
               THEN [none EXCEPT !.err = EngineFaultMsg, !.execd = run.execd, !.cause = "engine"]
               ELSE [ok |-> TRUE, objs |-> run.objs, rows |-> Append(rows, name),
                     execd |-> run.execd, err |-> <<>>, cause |-> "none"]

\* --------------------------------------------------------------------- state
VARIABLES
  dirExists,   \* the migrations directory exists
  dir,         \* its entries: name -> text
  objects,     \* the committed schema: the tables that exist
  tableReady,  \* the tracking table __migration__ exists
  ledger,      \* the tracking table: the recorded names, in insertion order
  pc,          \* "idle", or "running" inside the loop of run()
  queue,       \* migration_files not yet visited by the loop
  result,      \* what the last call of run() returned
  runs,        \* calls of run() so far
  log,         \* observation: one record per file the current call visited
  idem         \* observation: the call before the current one returned Ok

vars == <<dirExists, dir, objects, tableReady, ledger, pc, queue, result,
          runs, log, idem>>

\* the state of the rest of the program: the value codec, the execution
\* bridge and the setup closure of the application
VARIABLES
  codec,       \* one value on its way through binding, storage and decoding
  mutex,       \* DatabaseState.pool: who holds the lock, or "free"
  table,       \* the rows of the table the requests work on
  calls,       \* per caller: the command it has invoked and how far it is
  issued,      \* commands invoked so far
  app          \* the setup closure: where it is, and whether the state is managed

others == <<codec, mutex, table, calls, issued, app>>
allvars == <<vars, others>>

\* the rest of the program before it has done anything
CodecAtRest == [stage |-> "off"]
AppAtRest == [stage |-> "off", managed |-> FALSE, ran |-> 0]
OthersAtRest ==
  /\ codec = CodecAtRest
  /\ mutex = "free"
  /\ table = <<>>
  /\ calls = <<>>
  /\ issued = 0
  /\ app = AppAtRest

NoResult == [state |-> "none", err |-> <<>>]
Success == [state |-> "ok", err |-> <<>>]
Failure(e) == [state |-> "err", err |-> e]

Init ==
  /\ dirExists \in BOOLEAN
  /\ dir \in (IF dirExists THEN Directories ELSE {<<>>})
  /\ objects \in SUBSET Tables
  /\ tableReady = FALSE
  /\ ledger = <<>>
  /\ pc = "idle"
  /\ queue = <<>>
  /\ result = NoResult
  /\ runs = 0
  /\ log = <<>>
  /\ idem = FALSE
  /\ OthersAtRest

\* the observation record of one loop iteration: the file, how the iteration
\* ended, the call that returned the error (at), the kind of the error of
\* apply_migration (cause), the statements executed, the schema before and
\* after, and whether the name was recorded before and after
Visit(file, outcome, at, cause, execd, post, rows) ==
  [file |-> file, outcome |-> outcome, at |-> at, cause |-> cause,
   wasApplied |-> file \in Range(ledger), execd |-> execd,
   pre |-> objects, post |-> post, recorded |-> file \in Range(rows)]

\* mutant: the directory is listed before the tracking table is created
StartRun_listFirst(fault) ==
  /\ pc = "idle"
  /\ runs < MaxRuns
  /\ runs' = runs + 1
  /\ idem' = (result = Success)
  /\ log' = <<>>
  /\ LET files == get_migration_files(dirExists, dir)
     IN  IF ~files.ok
         THEN /\ result' = Failure(files.err)
              /\ UNCHANGED <<tableReady, pc, queue>>
         ELSE IF fault = "setup"
         THEN /\ result' = Failure(EngineFaultMsg)
              /\ UNCHANGED <<tableReady, pc, queue>>
         ELSE /\ tableReady' = TRUE
              /\ pc' = "running"
              /\ queue' = files.val
              /\ UNCHANGED result
  /\ UNCHANGED <<dirExists, dir, objects, ledger>>
  /\ UNCHANGED others

\* run(), up to the loop: setup_migration_table, then get_migration_files
StartRun(fault) ==
  /\ pc = "idle"
  /\ runs < MaxRuns
  /\ runs' = runs + 1
  /\ idem' = (result = Success)
  /\ log' = <<>>
  /\ IF fault = "setup"
     THEN /\ result' = Failure(EngineFaultMsg)
          /\ UNCHANGED <<tableReady, pc, queue>>
     ELSE LET files == get_migration_files(dirExists, dir)
          IN  /\ tableReady' = TRUE
              /\ IF files.ok
                 THEN /\ pc' = "running"
                      /\ queue' = files.val
                      /\ UNCHANGED result
                 ELSE /\ result' = Failure(files.err)
                      /\ UNCHANGED <<pc, queue>>
  /\ UNCHANGED <<dirExists, dir, objects, ledger>>
  /\ UNCHANGED others

\* mutant: the file whose iteration returns the error is recorded
Abort_recorded(file, e, at, cause, execd, post) ==
  [ret |-> Failure(e), objects |-> post,
   ledger |-> mark_migration_applied(ledger, file),
   visit |-> Visit(file, "failed", at, cause, execd, post, ledger)]

\* the loop iteration returns the error e from run(); post is the schema the
\* calls made so far have left
Abort(file, e, at, cause, execd, post) ==
  [ret |-> Failure(e), objects |-> post, ledger |-> ledger,
   visit |-> Visit(file, "failed", at, cause, execd, post, ledger)]

\* the loop iteration ends and the loop goes on
Continue(file, outcome, cause, execd, post, rows) ==
  [ret |-> NoResult, objects |-> post, ledger |-> rows,
   visit |-> Visit(file, outcome, "none", cause, execd, post, rows)]

\* the body of the loop of run() on file: what it returns (ret), and the
\* schema and the tracking table it leaves
Iteration(file, fault) ==
  IF fault = "read"
  THEN Abort(file, ReadFailedMsg \o Bytes(file), "read", "read", 0, objects)
  ELSE IF fault = "check"
  THEN Abort(file, EngineFaultMsg, "check", "engine", 0, objects)
  ELSE IF is_migration_applied(ledger, file)
  THEN Continue(file, "skipped", "none", 0, objects, ledger)
  ELSE LET r == apply_migration(file, dir[file], objects, ledger, fault)
       IN  IF r.ok
           THEN Continue(file, "applied", "none", r.execd, r.objs, r.rows)
           ELSE IF Contains(r.err, AlreadyExists)
           THEN IF fault = "mark"
                THEN Abort(file, EngineFaultMsg, "mark", r.cause, r.execd, r.objs)
                ELSE Continue(file, "recovered", r.cause, r.execd, r.objs,
                              mark_migration_applied(r.rows, file))
           ELSE Abort(file, r.err, "apply", r.cause, r.execd, r.objs)

\* one iteration of the loop of run() on the next file; fault is the call of
\* the iteration that fails for a reason of its own: reading the file, or an
\* engine call (a call the iteration does not reach cannot fail)
StepFile(fault) ==
  /\ pc = "running"
  /\ queue # <<>>
  /\ LET it == Iteration(Head(queue), fault)
     IN  /\ fault = "none" \/ it # Iteration(Head(queue), "none")
         /\ objects' = it.objects
         /\ ledger' = it.ledger
         /\ log' = Append(log, it.visit)
         /\ IF it.ret = NoResult
            THEN /\ queue' = Tail(queue)
                 /\ UNCHANGED <<pc, result>>
            ELSE /\ result' = it.ret
                 /\ pc' = "idle"
                 /\ UNCHANGED queue
  /\ UNCHANGED <<dirExists, dir, tableReady, runs, idem>>
  /\ UNCHANGED others

\* run() after the loop: Ok(())
FinishRun ==
  /\ pc = "running"
  /\ queue = <<>>
  /\ pc' = "idle"
  /\ result' = Success
  /\ UNCHANGED <<dirExists, dir, objects, tableReady, ledger, queue, runs, log, idem>>
  /\ UNCHANGED others

StartFaults == {"none", "setup"}
StepFaults == {"none", "read", "check", "begin", "insert", "commit", "mark"}

Next ==
  \/ \E fault \in StartFaults : StartRun(fault)
  \/ \E fault \in StepFaults : StepFile(fault)
  \/ FinishRun

Spec == Init /\ [][Next]_vars

TypeOK ==
  /\ pc \in {"idle", "running"}
  /\ objects \subseteq Tables
  /\ Range(ledger) \subseteq FileNames
  /\ runs \in 0..MaxRuns

\* ---------------------------------------------------------------- properties
\* what one statement is meant to do to the schema, and a whole file
Effect(stmt, objs) ==
  IF stmt.kind = "create" THEN objs \cup {stmt.t} ELSE objs \ {stmt.t}

RECURSIVE AllEffects(_, _)
AllEffects(stmts, objs) ==
  IF stmts = <<>> THEN objs ELSE AllEffects(Tail(stmts), Effect(Head(stmts), objs))

\* the statements of a file of the directory
StmtsOf(file) == CleanedSql(dir[file])

NoDup(q) == \A i, j \in 1..Len(q) : q[i] = q[j] => i = j
IsPrefix(p, q) == Len(p) <= Len(q) /\ SubSeq(q, 1, Len(p)) = p
SqlSuffixed ==
  {n \in FileNames :
     LET b == Bytes(n) IN Len(b) > 4 /\ SubSeq(b, Len(b) - 3, Len(b)) = Dot \o SqlExt}
EndsWithSql(n) == n \in SqlSuffixed
SqlNames == {n \in DOMAIN dir : EndsWithSql(n)}
Returned == pc = "idle" /\ runs > 0
\* the call did not end at entry i of the log
Continued(i) == i < Len(log) \/ pc = "running" \/ result = Success

\* C1: a call of run() that follows a successful call (the directory and the
\* tracking table are those the first call left) executes no statement, adds
\* no tracking record, applies and recovers nothing, and the tracking table
\* holds exactly one record per .sql file name.
C1_Idempotent ==
  idem =>
    /\ \A i \in 1..Len(log) :
         /\ log[i].execd = 0
         /\ log[i].wasApplied /\ log[i].recorded
         /\ log[i].outcome \notin {"applied", "recovered"}
         /\ log[i].post = log[i].pre
    /\ NoDup(ledger)
    /\ Range(ledger) = SqlNames

C1_Witness ==
  /\ idem /\ Returned /\ result = Success
  /\ Len(log) = 2 /\ Len(ledger) = 2
  /\ \E n \in SqlNames : StmtsOf(n) # <<>>

C3_AllOrNothing ==
  /\ \A i \in 1..Len(log) :
       (~log[i].wasApplied /\ log[i].outcome # "recovered") =>
         \/ /\ log[i].outcome = "applied"
            /\ log[i].post = AllEffects(StmtsOf(log[i].file), log[i].pre)
            /\ log[i].recorded /\ log[i].file \in Range(ledger)
         \/ /\ log[i].outcome = "failed"
            /\ log[i].post = log[i].pre
            /\ ~log[i].recorded /\ log[i].file \notin Range(ledger)
  /\ log # <<>> => objects = log[Len(log)].post

C3_Witness ==
  /\ Returned /\ log # <<>>
  /\ LET e == log[Len(log)]
     IN  /\ e.outcome = "failed" /\ e.at = "apply" /\ e.cause = "missing"
         /\ e.execd = 2 /\ ~e.wasApplied
         /\ objects = e.pre /\ e.file \notin Range(ledger)

\* C4: when a statement of an unapplied file fails with the engine's error
\* for an object that already exists, the call does not return that error:
\* the name is recorded (unless the tracking insert itself fails in the
\* engine) and the loop goes on to the next file.
C4_Recovery ==
  \A i \in 1..Len(log) :
    (log[i].cause = "exists" /\ log[i].at # "mark") =>
      /\ log[i].outcome = "recovered"
      /\ ~log[i].wasApplied /\ log[i].recorded
      /\ log[i].file \in Range(ledger)
      /\ Continued(i)
      /\ i = Len(log) => (pc = "running" => Len(queue) = Cardinality(SqlNames) - i)

C4_Witness ==
  /\ Len(log) = 2
  /\ log[1].cause = "exists" /\ log[1].outcome = "recovered"
  /\ log[2].outcome = "applied" /\ log[2].execd > 0
  /\ ledger = <<log[1].file, log[2].file>>

\* the effects of the first n statements
RECURSIVE PrefixEffects(_, _, _)
PrefixEffects(stmts, n, objs) ==
  IF n = 0 \/ stmts = <<>> THEN objs
  ELSE PrefixEffects(Tail(stmts), n - 1, Effect(Head(stmts), objs))

\* C5 as stated: when statement k of a file fails with the already-exists
\* error and the file is marked applied, the effects of its statements
\* 1..k-1 are in the schema.
C5_AsStated ==
  \A i \in 1..Len(log) :
    (log[i].outcome = "recovered" /\ log[i].cause = "exists") =>
      log[i].post = PrefixEffects(StmtsOf(log[i].file), log[i].execd - 1, log[i].pre)

\* C6 as stated: a failure that is not the already-exists error of the
\* engine (read, parse, another statement error, tracking insert, commit)
\* ends the call with an error at that file, which is not recorded.
C6_AsStated ==
  \A i \in 1..Len(log) :
    log[i].cause \in {"read", "parse", "missing", "engine"} =>
      /\ log[i].outcome = "failed"
      /\ i = Len(log) /\ pc = "idle" /\ result.state = "err"
      /\ ~log[i].wasApplied => ~log[i].recorded

\* C7: once a name is recorded its record stays where it is, no name is
\* recorded twice, and no statement of a recorded file is executed.
C7_Terminal ==
  [][/\ IsPrefix(ledger, ledger')
     /\ NoDup(ledger')
     /\ (log' # log /\ log' # <<>>) =>
          LET e == log'[Len(log')]
          IN  e.wasApplied => (e.execd = 0 /\ e.recorded /\ e.post = e.pre)]_vars

C7_Witness ==
  /\ runs = 2 /\ Returned /\ Len(log) = 2
  /\ log[1].wasApplied /\ log[1].outcome = "skipped"
  /\ StmtsOf(log[1].file) # <<>>
  /\ ~log[2].wasApplied /\ log[2].outcome = "applied"

\* C8 as stated: a file whose name is recorded when the loop reaches it is
\* skipped whatever its content or readability (the lookup in the tracking
\* table itself succeeding).
C8_AsStated ==
  \A i \in 1..Len(log) :
    (log[i].wasApplied /\ log[i].at # "check") => log[i].outcome = "skipped"

\* C9: when the directory does not exist the call returns an error, visits
\* no file and records nothing; unless creating the tracking table failed in
\* the engine, the error is the folder-not-found one and the tracking table
\* exists.
C9_NoDirectory ==
  (~dirExists /\ Returned) =>
    /\ result.state = "err"
    /\ log = <<>> /\ ledger = <<>> /\ queue = <<>>
    /\ result.err # EngineFaultMsg =>
         (result.err = FolderNotFoundMsg /\ tableReady)

C9_Witness ==
  ~dirExists /\ Returned /\ result.err = FolderNotFoundMsg /\ tableReady /\ runs = 1

\* C10: entries whose name does not end in ".sql" are never visited nor
\* recorded, and the files a call visits and has still to visit are the
\* .sql entries in order of name, whatever else the directory holds.
C10_OnlySql ==
  /\ \A i \in 1..Len(log) : EndsWithSql(log[i].file)
  /\ \A i \in 1..Len(ledger) : EndsWithSql(ledger[i])
  /\ \A i \in 1..Len(queue) : EndsWithSql(queue[i])
  /\ pc = "running" =>
       /\ Len(log) + Len(queue) = Cardinality(SqlNames)
       /\ {log[i].file : i \in 1..Len(log)} \cup Range(queue) = SqlNames
       /\ \A i, j \in 1..Len(queue) : i < j => NameLess(queue[i], queue[j])
       /\ \A i \in 1..Len(log) : \A j \in 1..Len(queue) : NameLess(log[i].file, queue[j])

C10_Witness ==
  /\ FileBak \in DOMAIN dir /\ Cardinality(DOMAIN dir) = 2
  /\ Returned /\ result = Success
  /\ Len(log) = 1 /\ log[1].outcome = "applied" /\ Len(ledger) = 1

\* C24: whenever a call of run() has returned success, every .sql file of
\* the directory has been visited by the call and has its name in the
\* tracking table.
C24_AllRecorded ==
  (Returned /\ result = Success) =>
    /\ SqlNames \subseteq Range(ledger)
    /\ {log[i].file : i \in 1..Len(log)} = SqlNames
    /\ \A i \in 1..Len(log) : log[i].recorded

\* C24 witness: the first call has returned success after it recovered one
\* file and applied the other, and both names are recorded
C24_Witness ==
  /\ Returned /\ result = Success /\ runs = 1
  /\ Len(log) = 2 /\ Cardinality(SqlNames) = 2
  /\ log[1].outcome = "recovered" /\ log[2].outcome = "applied"
  /\ Range(ledger) = SqlNames

\* the file at which the last call ended with the error of apply_migration
FailedAtApply ==
  /\ log # <<>>
  /\ log[Len(log)].outcome = "failed"
  /\ log[Len(log)].at = "apply"

\* C25: a file whose apply failed with an error that is not recovered has no
\* tracking record and the call has ended at it with that error; the next
\* call has the file in its list, still unrecorded; and an iteration on an
\* unrecorded file records no other file, does not skip it, and when it
\* applies it executes all its statements from the first on the schema the
\* failed attempt left untouched, and records it.
C25_Retry ==
  /\ [](\A i \in 1..Len(log) :
          (log[i].outcome = "failed" /\ log[i].at = "apply") =>
            /\ ~log[i].recorded /\ log[i].file \notin Range(ledger)
            /\ log[i].post = log[i].pre
            /\ i = Len(log) /\ pc = "idle" /\ result.state = "err")
  /\ [][(FailedAtApply /\ runs' = runs + 1 /\ pc' = "running") =>
          /\ log[Len(log)].file \in Range(queue')
          /\ log[Len(log)].file \notin Range(ledger')
          /\ objects' = log[Len(log)].pre]_vars
  /\ [][(pc = "running" /\ queue # <<>> /\ log' # log) =>
          LET e == log'[Len(log')]
          IN  /\ e.file = Head(queue)
              /\ Range(ledger') \subseteq Range(ledger) \cup {e.file}
              /\ Head(queue) \notin Range(ledger) =>
                   /\ ~e.wasApplied /\ e.outcome # "skipped"
                   /\ e.outcome = "applied" =>
                        /\ e.execd = Len(StmtsOf(e.file))
                        /\ e.post = AllEffects(StmtsOf(e.file), e.pre)
                        /\ e.recorded]_vars

\* C25 witness: the first call recorded the first file and ended with an
\* error at the second; the second call has skipped the first file and
\* applied the second from its first statement
C25_Witness ==
  /\ runs = 2 /\ ~idem /\ Len(log) = 2
  /\ log[1].outcome = "skipped"
  /\ ~log[2].wasApplied /\ log[2].outcome = "applied"
  /\ log[2].execd = Len(StmtsOf(log[2].file)) /\ log[2].execd > 0
  /\ log[2].file \in Range(ledger)

\* C26: an unapplied file that has no statement once its marker lines are
\* removed (an empty file, or marker lines only) is applied unless reading
\* it or a call of the engine fails: no statement is executed, the schema
\* is unchanged, the name is recorded and the call goes on.
C26_EmptyFile ==
  \A i \in 1..Len(log) :
    (StmtsOf(log[i].file) = <<>> /\ ~log[i].wasApplied) =>
      \/ /\ log[i].outcome = "applied"
         /\ log[i].execd = 0 /\ log[i].post = log[i].pre
         /\ log[i].recorded /\ log[i].file \in Range(ledger)
         /\ Continued(i)
      \/ /\ log[i].outcome = "failed"
         /\ log[i].cause \in {"read", "engine"}

\* C26 witness: a file of marker lines only has been applied and recorded
\* with the schema unchanged, and the call has gone on to apply the next file
C26_Witness ==
  /\ Len(log) = 2
  /\ dir[log[1].file] = <<MarkerLine>>
  /\ log[1].outcome = "applied" /\ log[1].execd = 0
  /\ log[1].post = log[1].pre /\ log[1].recorded
  /\ log[2].outcome = "applied" /\ log[2].execd > 0
  /\ ledger = <<log[1].file, log[2].file>>

\* ================================================================ value codec
\* The width of the machine integers of the model. The code works on 64-bit
\* integers and on floats with a 53-bit mantissa; the model keeps the relation
\* (signed range, unsigned range twice as wide, mantissa shorter than both).
IntBits == 4
MantBits == IntBits - 2
I64_MAX == 2^(IntBits - 1) - 1
I64_MIN == -(2^(IntBits - 1))
U64_MAX == 2^IntBits - 1

\* serde_json::Value as a record: kind, the numeric payload num and the text
\* payload str (bytes). A Float carries twice its value, so that halves are
\* exact; Unrepresentable is a number literal that neither as_i64 nor as_f64
\* can represent; an Array carries its items.
JNull == [kind |-> "Null", num |-> 0, str |-> <<>>]
JBool(b) == [kind |-> "Bool", num |-> IF b THEN 1 ELSE 0, str |-> <<>>]
JInt(i) == [kind |-> "Int", num |-> i, str |-> <<>>]
JFloat(twice) == [kind |-> "Float", num |-> twice, str |-> <<>>]
JUnrepresentable == [kind |-> "Unrepresentable", num |-> 0, str |-> <<>>]
JString(bytes) == [kind |-> "String", num |-> 0, str |-> bytes]
JArray(items) == [kind |-> "Array", num |-> 0, str |-> items]

\* the decimal digits of a natural number, and of an integer, as bytes
RECURSIVE Digits(_)
Digits(n) == IF n < 10 THEN <<48 + n>> ELSE Digits(n \div 10) \o <<48 + (n % 10)>>
IntText(i) == IF i < 0 THEN <<45>> \o Digits(-i) ELSE Digits(i)
\* the text of a float: its integral part, a point, and .0 or .5
FloatText(twice) ==
  LET a == IF twice < 0 THEN -twice ELSE twice
  IN  (IF twice < 0 THEN <<45>> ELSE <<>>) \o Digits(a \div 2) \o <<46>>
      \o (IF a % 2 = 0 THEN <<48>> ELSE <<53>>)

\* serde_json::to_string of an array of small integers: [1,2]
RECURSIVE ItemsText(_)
ItemsText(items) ==
  IF items = <<>> THEN <<>>
  ELSE IF Len(items) = 1 THEN IntText(items[1])
  ELSE IntText(items[1]) \o <<44>> \o ItemsText(Tail(items))
to_string(v) == <<91>> \o ItemsText(v.str) \o <<93>>

\* the number of binary digits of a natural number
RECURSIVE BitLen(_)
BitLen(n) == IF n = 0 THEN 0 ELSE 1 + BitLen(n \div 2)
\* an integer converted to a float (n as f64): exact while it fits the
\* mantissa, otherwise rounded to the nearest representable value, ties to even
F64Round(n) ==
  LET a == IF n < 0 THEN -n ELSE n
      b == BitLen(a)
      q == IF b <= MantBits THEN 1 ELSE 2^(b - MantBits)
      lo == q * (a \div q)
      r == a - lo
      up == IF 2 * r > q THEN TRUE
            ELSE IF 2 * r < q THEN FALSE
            ELSE (a \div q) % 2 = 1
      m == IF r = 0 THEN a ELSE IF up THEN lo + q ELSE lo
  IN  IF n < 0 THEN -m ELSE m

None == [some |-> FALSE, val |-> 0]
Some(x) == [some |-> TRUE, val |-> x]
\* serde_json::Number::as_i64: an integer in the signed range
as_i64(v) ==
  IF v.kind = "Int" /\ v.num <= I64_MAX THEN Some(v.num) ELSE None
\* serde_json::Number::as_f64 (the result as twice the float): any integer,
\* rounded, and any float
as_f64(v) ==
  IF v.kind = "Int" THEN Some(2 * F64Round(v.num))
  ELSE IF v.kind = "Float" THEN Some(v.num)
  ELSE None

\* a native value of the engine: its storage class, with the numeric payload
\* (an integer, or twice a real) and the bytes of a text or a blob
NativeNull == [class |-> "null", num |-> 0, str |-> <<>>]
NativeInt(i) == [class |-> "integer", num |-> i, str |-> <<>>]
NativeReal(twice) == [class |-> "real", num |-> twice, str |-> <<>>]
NativeText(bytes) == [class |-> "text", num |-> 0, str |-> bytes]
NativeBlob(bytes) == [class |-> "blob", num |-> 0, str |-> bytes]

InvalidNumberMsg == <<73, 110, 118, 97, 108, 105, 100, 32, 110, 117, 109, 98, 101, 114, 32, 112, 97, 114, 97, 109, 101, 116, 101, 114>>

\* mutant: every number is bound as a float
bind_param_allFloat(param) ==
  IF param.kind = "Null" THEN Ok(NativeNull)
  ELSE IF param.kind = "Bool" THEN Ok(NativeInt(param.num))
  ELSE IF param.kind = "String" THEN Ok(NativeText(param.str))
  ELSE IF param.kind = "Array" THEN Ok(NativeText(to_string(param)))
  ELSE IF as_f64(param).some THEN Ok(NativeReal(as_f64(param).val))
  ELSE Err(InvalidNumberMsg)

\* one arm of the match that binds a parameter: the native value bound, or
\* the error execute_sql_internal returns
bind_param(param) ==
  IF param.kind = "Null" THEN Ok(NativeNull)
  ELSE IF param.kind = "Bool" THEN Ok(NativeInt(param.num))
  ELSE IF param.kind = "String" THEN Ok(NativeText(param.str))
  ELSE IF param.kind = "Array" THEN Ok(NativeText(to_string(param)))
  ELSE IF as_i64(param).some THEN Ok(NativeInt(as_i64(param).val))
  ELSE IF as_f64(param).some THEN Ok(NativeReal(as_f64(param).val))
  ELSE Err(InvalidNumberMsg)

\* the type names of a column: the four the decoder names, one it does not,
\* and NULL, the type name of a column that has no declared type
ColTypes == {"INTEGER", "REAL", "TEXT", "BLOB", "BOOLEAN", "NULL"}

\* a text that is a decimal integer literal, and its value
IsDigits(bytes) == bytes # <<>> /\ \A i \in 1..Len(bytes) : bytes[i] \in 48..57
RECURSIVE DigitsValue(_)
DigitsValue(bytes) ==
  IF bytes = <<>> THEN 0
  ELSE 10 * DigitsValue(SubSeq(bytes, 1, Len(bytes) - 1)) + (bytes[Len(bytes)] - 48)

\* what the engine stores when a bound value goes into a column of the
\* declared type (the column's affinity)
StoreCell(native, decl) ==
  IF decl \in {"INTEGER", "BOOLEAN"}
  THEN IF native.class = "text" /\ IsDigits(native.str)
       THEN NativeInt(DigitsValue(native.str))
       ELSE IF native.class = "real" /\ native.num % 2 = 0
               /\ native.num \div 2 \in I64_MIN..I64_MAX
       THEN NativeInt(native.num \div 2)
       ELSE native
  ELSE IF decl = "REAL"
  THEN IF native.class = "text" /\ IsDigits(native.str)
       THEN NativeReal(2 * F64Round(DigitsValue(native.str)))
       ELSE IF native.class = "integer"
       THEN NativeReal(2 * F64Round(native.num))
       ELSE native
  ELSE IF decl = "TEXT"
  THEN IF native.class = "integer" THEN NativeText(IntText(native.num))
       ELSE IF native.class = "real" THEN NativeText(FloatText(native.num))
       ELSE native
  ELSE native

\* String::from_utf8 on the bytes of the model: bytes below 128 are text
from_utf8(bytes) ==
  IF \A i \in 1..Len(bytes) : bytes[i] < 128 THEN Ok(bytes) ELSE Err(<<>>)

\* row.try_get::<Option<T>>: the value if it is NULL or of a storage class T
\* decodes, an error otherwise
try_get(cell, classes) ==
  IF cell.class = "null" THEN Ok(NativeNull)
  ELSE IF cell.class \in classes THEN Ok(cell)
  ELSE Err(<<>>)

\* mutant: a NULL text decodes to the empty string
sqlx_value_to_json_emptyText(type_name, cell) ==
  IF type_name = "TEXT" /\ cell.class \in {"null", "text"} THEN JString(cell.str)
  ELSE IF type_name = "INTEGER" /\ cell.class = "integer" THEN JInt(cell.num)
  ELSE IF type_name = "REAL" /\ cell.class = "real" THEN JFloat(cell.num)
  ELSE IF type_name = "BLOB" /\ cell.class \in {"blob", "text"}
  THEN IF from_utf8(cell.str).ok THEN JString(cell.str) ELSE JNull
  ELSE IF type_name \notin {"INTEGER", "REAL", "TEXT", "BLOB", "NULL"}
          /\ cell.class = "text"
  THEN JString(cell.str)
  ELSE JNull

\* the decoder: the dynamic value of a cell, by the declared type of its column
sqlx_value_to_json(type_name, cell) ==
  IF type_name = "INTEGER"
  THEN LET r == try_get(cell, {"integer"})
       IN  IF r.ok /\ r.val.class # "null" THEN JInt(r.val.num) ELSE JNull
  ELSE IF type_name = "REAL"
  THEN LET r == try_get(cell, {"real"})
       IN  IF r.ok /\ r.val.class # "null" THEN JFloat(r.val.num) ELSE JNull
  ELSE IF type_name = "TEXT"
  THEN LET r == try_get(cell, {"text"})
       IN  IF r.ok /\ r.val.class # "null" THEN JString(r.val.str) ELSE JNull
  ELSE IF type_name = "BLOB"
  THEN LET r == try_get(cell, {"blob", "text"})
       IN  IF r.ok /\ r.val.class # "null"
           THEN IF from_utf8(r.val.str).ok THEN JString(from_utf8(r.val.str).val)
                ELSE JNull
           ELSE JNull
  ELSE IF type_name = "NULL" THEN JNull
  ELSE LET r == try_get(cell, {"text"})
       IN  IF r.ok /\ r.val.class # "null" THEN JString(r.val.str) ELSE JNull

\* ------------------------------------------------- the codec on sample values
\* the dynamic values a request can carry
Floats == {JFloat(t) : t \in -3..4}
Texts == {<<>>, <<120>>, <<49>>}
Arrays == {<<>>, <<1>>, <<1, 2>>}
JsonValues ==
  {JNull, JBool(TRUE), JBool(FALSE), JUnrepresentable}
    \cup {JInt(i) : i \in I64_MIN..U64_MAX}
    \cup Floats
    \cup {JString(t) : t \in Texts}
    \cup {JArray(a) : a \in Arrays}

\* cells that are in the database already, written by other means
StoredCells ==
  {NativeNull, NativeBlob(<<255>>), NativeBlob(<<120>>), NativeInt(1), NativeText(<<120>>)}

\* the migration engine before any call of run(), on no directory
MigrationAtRest ==
  /\ dirExists = FALSE
  /\ dir = <<>>
  /\ objects = {}
  /\ tableReady = FALSE
  /\ ledger = <<>>
  /\ pc = "idle"
  /\ queue = <<>>
  /\ result = NoResult
  /\ runs = 0
  /\ log = <<>>
  /\ idem = FALSE

CodecStart(origin, v, decl, cell) ==
  [stage |-> IF origin = "param" THEN "param" ELSE "stored", origin |-> origin,
   value |-> v, decl |-> decl, native |-> NativeNull, cell |-> cell,
   out |-> JNull, err |-> <<>>]

CodecInit ==
  /\ MigrationAtRest
  /\ mutex = "free"
  /\ table = <<>>
  /\ calls = <<>>
  /\ issued = 0
  /\ app = AppAtRest
  /\ \E decl \in ColTypes :
       \/ \E v \in JsonValues : codec = CodecStart("param", v, decl, NativeNull)
       \/ \E c \in StoredCells : codec = CodecStart("cell", JNull, decl, c)

\* the parameter is bound (the loop over request.params)
BindValue ==
  /\ codec.stage = "param"
  /\ LET r == bind_param(codec.value)
     IN  codec' = IF r.ok THEN [codec EXCEPT !.stage = "bound", !.native = r.val]
                  ELSE [codec EXCEPT !.stage = "rejected", !.err = r.err]
  /\ UNCHANGED <<vars, mutex, table, calls, issued, app>>

\* the statement stores the bound value in a column of the declared type
StoreValue ==
  /\ codec.stage = "bound"
  /\ codec' = [codec EXCEPT !.stage = "stored",
                            !.cell = StoreCell(codec.native, codec.decl)]
  /\ UNCHANGED <<vars, mutex, table, calls, issued, app>>

\* a query reads the cell back (row_to_sql_row on its row)
DecodeValue ==
  /\ codec.stage = "stored"
  /\ codec' = [codec EXCEPT !.stage = "decoded",
                            !.out = sqlx_value_to_json(codec.decl, codec.cell)]
  /\ UNCHANGED <<vars, mutex, table, calls, issued, app>>

CodecNext == BindValue \/ StoreValue \/ DecodeValue

SpecCodec == CodecInit /\ [][CodecNext]_allvars

\* ------------------------------------------------------ codec: the properties
Decoded == codec.stage = "decoded"
FromParam == codec.origin = "param"
\* the column types a value of a kind is stored in
ColumnsOf(kind) ==
  CASE kind = "Null" -> ColTypes
    [] kind = "Bool" -> {"INTEGER"}
    [] kind = "Int" -> {"INTEGER"}
    [] kind = "Float" -> {"REAL"}
    [] OTHER -> {"TEXT"}
\* the two exceptions the round trip names: a structured value comes back as
\* its JSON text, a blob that is not UTF-8 as null
StructuredAsText ==
  (Decoded /\ FromParam /\ codec.value.kind = "Array" /\ codec.decl = "TEXT")
    => codec.out = JString(to_string(codec.value))
BlobAsNull ==
  (Decoded /\ codec.decl = "BLOB" /\ codec.cell.class = "blob"
     /\ ~from_utf8(codec.cell.str).ok)
    => codec.out = JNull

\* C18 as stated: a null, boolean, integer, float or string that is bound,
\* stored in a column of its type and decoded comes back as the same value;
\* arrays come back as JSON text and non-UTF-8 blobs as null.
C18_AsStated ==
  /\ (Decoded /\ FromParam
        /\ codec.value.kind \in {"Null", "Bool", "Int", "Float", "String"}
        /\ codec.decl \in ColumnsOf(codec.value.kind))
       => codec.out = codec.value
  /\ StructuredAsText
  /\ BlobAsNull

\* C18 (amended): bound, stored and decoded, a null comes back as null from
\* every column; an integer of the signed range as itself from an INTEGER
\* column, a float as itself from a REAL column, a string as itself from a
\* TEXT column; a boolean comes back as the integer 1 or 0 from an INTEGER
\* column; an integer above the signed range is bound as a float and comes
\* back as null from an INTEGER column; arrays come back as their JSON text
\* and non-UTF-8 blobs as null.
C18_RoundTrip ==
  /\ (Decoded /\ FromParam /\ codec.decl \in ColumnsOf(codec.value.kind))
       => LET v == codec.value
          IN  CASE v.kind = "Null" -> codec.out = JNull
                [] v.kind = "Bool" -> codec.out = JInt(v.num)
                [] v.kind = "Int" ->
                     IF v.num <= I64_MAX THEN codec.out = v
                     ELSE codec.native.class = "real" /\ codec.out = JNull
                [] v.kind \in {"Float", "String"} -> codec.out = v
                [] OTHER -> TRUE
  /\ StructuredAsText
  /\ BlobAsNull

\* C18 witness: the largest signed integer has gone through an INTEGER column
C18_Witness ==
  Decoded /\ FromParam /\ codec.value = JInt(I64_MAX) /\ codec.decl = "INTEGER"
    /\ codec.cell = NativeInt(I64_MAX) /\ codec.out = JInt(I64_MAX)

\* C19: a null parameter is bound as NULL and stored as NULL in every column,
\* and a cell that holds NULL decodes to the null value whatever the declared
\* type of its column.
C19_Null ==
  /\ (FromParam /\ codec.value = JNull /\ codec.stage \in {"bound", "stored", "decoded"})
       => codec.native = NativeNull
  /\ (FromParam /\ codec.value = JNull /\ codec.stage \in {"stored", "decoded"})
       => codec.cell = NativeNull
  /\ (FromParam /\ codec.value = JNull) => codec.stage # "rejected"
  /\ (Decoded /\ codec.cell.class = "null") => codec.out = JNull

\* C19 witness: a null parameter has come back from a TEXT column
C19_Witness ==
  Decoded /\ FromParam /\ codec.value = JNull /\ codec.decl = "TEXT"
    /\ codec.cell = NativeNull /\ codec.out = JNull

\* C20 as stated: an integral number is bound as a signed integer, a
\* non-integral one as a float, and a number that is neither is rejected
\* with the invalid-parameter error (nothing is bound, nothing is executed).
C20_AsStated ==
  (FromParam /\ codec.stage # "param") =>
    /\ codec.value.kind = "Int" =>
         (codec.stage = "rejected" \/ codec.native.class = "integer")
    /\ codec.value.kind = "Float" =>
         (codec.stage # "rejected" /\ codec.native.class = "real")
    /\ codec.value.kind = "Unrepresentable" =>
         (codec.stage = "rejected" /\ codec.err = InvalidNumberMsg)

\* the type names the decoder has a typed arm for
TypedNames == {"INTEGER", "REAL", "TEXT", "BLOB"}

\* C21 as stated: for a column whose type name is NULL or is not one the
\* decoder names, the decoder attempts a text decode: a cell that holds text
\* comes back as that string, and null comes back only when the cell holds
\* NULL or does not decode as text.
C21_AsStated ==
  (Decoded /\ codec.decl \notin TypedNames)
    => codec.out = IF codec.cell.class = "text" THEN JString(codec.cell.str)
                   ELSE JNull


\* =========================================================== execution bridge
\* the longest batch, and the number of commands the callers invoke
MaxBatch == 2
MaxCalls == 2

Callers == {"c1", "c2"}

\* the table the requests work on: t (id INTEGER PRIMARY KEY, v TEXT)
VType == "TEXT"
NoSuchTableMissingMsg == <<110, 111, 32, 115, 117, 99, 104, 32, 116, 97, 98, 108, 101, 58, 32, 109, 105, 115, 115, 105, 110, 103>>

\* SqlRequest: the statement (by what it does), the parameters, the method
\*   insert  INSERT INTO t (v) VALUES (?)
\*   select  SELECT id, v FROM t
\*   bad     SELECT * FROM missing
SqlRequest(sql, params, method) == [sql |-> sql, params |-> params, method |-> method]
Requests ==
  {SqlRequest("insert", <<JNull>>, "run"),
   SqlRequest("insert", <<JInt(1)>>, "all"),
   SqlRequest("insert", <<JUnrepresentable>>, "run"),
   SqlRequest("select", <<>>, "run"),
   SqlRequest("select", <<>>, "all"),
   SqlRequest("select", <<>>, "get"),
   SqlRequest("select", <<>>, "nosuch"),
   SqlRequest("bad", <<>>, "get")}

\* the engine executes a statement with its bound parameters on the table:
\* the table it leaves and the rows it returns (each a list of columns with
\* name, declared type and cell), or its error
Column(name, type, cell) == [name |-> name, type |-> type, cell |-> cell]
EngineRow(r) == <<Column("id", "INTEGER", NativeInt(r.id)), Column("v", VType, r.v)>>
Engine(tbl, sql, natives) ==
  IF sql = "insert"
  THEN [ok |-> TRUE, err |-> <<>>, rows |-> <<>>,
        table |-> Append(tbl, [id |-> Len(tbl) + 1, v |-> StoreCell(natives[1], VType)])]
  ELSE IF sql = "select"
  THEN [ok |-> TRUE, err |-> <<>>, table |-> tbl,
        rows |-> [i \in 1..Len(tbl) |-> EngineRow(tbl[i])]]
  ELSE [ok |-> FALSE, err |-> NoSuchTableMissingMsg, rows |-> <<>>, table |-> tbl]

\* mutant: the cells that are NULL are left out of the values
row_to_sql_row_skipNull(row) ==
  [columns |-> [i \in 1..Len(row) |-> row[i].name],
   rows |-> LET F[i \in 0..Len(row)] ==
                  IF i = 0 THEN <<>>
                  ELSE IF row[i].cell.class = "null" THEN F[i - 1]
                  ELSE Append(F[i - 1], sqlx_value_to_json(row[i].type, row[i].cell))
            IN  F[Len(row)]]

\* mutant: the values of a row end at the first cell that does not decode
row_to_sql_row_stopOnError(row) ==
  [columns |-> [i \in 1..Len(row) |-> row[i].name],
   rows |-> LET Bad(i) == row[i].cell.class # "null"
                            /\ sqlx_value_to_json(row[i].type, row[i].cell) = JNull
                n == IF \E i \in 1..Len(row) : Bad(i)
                     THEN (CHOOSE i \in 1..Len(row) :
                             Bad(i) /\ \A j \in 1..(i - 1) : ~Bad(j)) - 1
                     ELSE Len(row)
            IN  [i \in 1..n |-> sqlx_value_to_json(row[i].type, row[i].cell)]]

\* SqlRow of an engine row: the column names, and the value of each index
row_to_sql_row(row) ==
  [columns |-> [i \in 1..Len(row) |-> row[i].name],
   rows |-> [i \in 1..Len(row) |-> sqlx_value_to_json(row[i].type, row[i].cell)]]

\* the parameters bound in order: the native values, or the first error
RECURSIVE BindAll(_)
BindAll(params) ==
  IF params = <<>> THEN Ok(<<>>)
  ELSE LET b == bind_param(Head(params))
       IN  IF ~b.ok THEN Err(b.err)
           ELSE LET rest == BindAll(Tail(params))
                IN  IF rest.ok THEN Ok(<<b.val>> \o rest.val) ELSE rest

\* what execute_sql_internal returns and leaves: executed tells whether the
\* statement reached the engine, engine is what the engine returned
Outcome(ok, err, rows, tbl, executed, engine) ==
  [ok |-> ok, err |-> err, rows |-> rows, table |-> tbl,
   executed |-> executed, engine |-> engine]

\* mutant: the rows of a run request are materialized like those of a query
execute_sql_internal_runFetches(tbl, request) ==
  LET b == BindAll(request.params)
  IN  IF ~b.ok THEN Outcome(FALSE, b.err, <<>>, tbl, FALSE, <<>>)
      ELSE LET e == Engine(tbl, request.sql, b.val)
           IN  IF ~e.ok THEN Outcome(FALSE, e.err, <<>>, e.table, TRUE, <<>>)
               ELSE Outcome(TRUE, <<>>,
                            [i \in 1..Len(e.rows) |-> row_to_sql_row(e.rows[i])],
                            e.table, TRUE, e.rows)

\* mutant: "get" fetches at most one row, and a method that is none of
\* "run", "all" and "get" is rejected
execute_sql_internal_getOne(tbl, request) ==
  LET b == BindAll(request.params)
  IN  IF ~b.ok THEN Outcome(FALSE, b.err, <<>>, tbl, FALSE, <<>>)
      ELSE IF request.method \notin {"run", "all", "get"}
      THEN Outcome(FALSE, <<>>, <<>>, tbl, FALSE, <<>>)
      ELSE LET e == Engine(tbl, request.sql, b.val)
           IN  IF ~e.ok THEN Outcome(FALSE, e.err, <<>>, e.table, TRUE, <<>>)
               ELSE IF request.method = "run"
               THEN Outcome(TRUE, <<>>, <<>>, e.table, TRUE, e.rows)
               ELSE IF request.method = "get"
               THEN Outcome(TRUE, <<>>,
                            [i \in 1..(IF e.rows = <<>> THEN 0 ELSE 1) |->
                               row_to_sql_row(e.rows[i])],
                            e.table, TRUE, e.rows)
               ELSE Outcome(TRUE, <<>>,
                            [i \in 1..Len(e.rows) |-> row_to_sql_row(e.rows[i])],
                            e.table, TRUE, e.rows)

execute_sql_internal(tbl, request) ==
  LET b == BindAll(request.params)
  IN  IF ~b.ok THEN Outcome(FALSE, b.err, <<>>, tbl, FALSE, <<>>)
      ELSE LET e == Engine(tbl, request.sql, b.val)
           IN  IF ~e.ok THEN Outcome(FALSE, e.err, <<>>, e.table, TRUE, <<>>)
               ELSE IF request.method = "run"
               THEN Outcome(TRUE, <<>>, <<>>, e.table, TRUE, e.rows)
               ELSE Outcome(TRUE, <<>>,
                            [i \in 1..Len(e.rows) |-> row_to_sql_row(e.rows[i])],
                            e.table, TRUE, e.rows)

\* ------------------------------------------------------- the two commands
\* what a command has returned: nothing yet, Ok with the responses, or Err
NoReturn == [state |-> "none", err |-> <<>>, results |-> <<>>]
ReturnOk(results) == [state |-> "ok", err |-> <<>>, results |-> results]
ReturnErr(e) == [state |-> "err", err |-> e, results |-> <<>>]

\* a caller and its command: execute_single_sql (one request) or
\* execute_batch_sql (request.queries). next is the request the loop is at,
\* results the responses collected, failed the error of `?`; done (what each
\* request executed did) and start (the table when the lock was taken) are
\* observations of the command in progress.
NoCall ==
  [state |-> "idle", kind |-> "none", queries |-> <<>>, next |-> 1,
   results |-> <<>>, failed |-> FALSE, err |-> <<>>, ret |-> NoReturn,
   done |-> <<>>, start |-> <<>>]

\* the batches: lists of requests that insert, query and fail
BatchRequests ==
  {SqlRequest("insert", <<JNull>>, "run"),
   SqlRequest("select", <<>>, "all"),
   SqlRequest("bad", <<>>, "get")}
Batches == SeqsUpTo(BatchRequests, MaxBatch)

\* the command is invoked with its request; the state must be managed
Invoke(c, kind, queries) ==
  /\ app.managed
  /\ calls[c].state \in {"idle", "returned"}
  /\ issued < MaxCalls
  /\ issued' = issued + 1
  /\ calls' = [calls EXCEPT ![c] = [NoCall EXCEPT !.state = "waiting",
                                                  !.kind = kind,
                                                  !.queries = queries]]
  /\ UNCHANGED <<vars, codec, mutex, table, app>>

\* mutant: the command goes on without the lock being free
Acquire_noWait(c) ==
  /\ calls[c].state = "waiting"
  /\ mutex' = c
  /\ calls' = [calls EXCEPT ![c].state = "running", ![c].start = table]
  /\ UNCHANGED <<vars, codec, table, issued, app>>

\* state.pool.lock().await returns: the caller holds the lock
Acquire(c) ==
  /\ calls[c].state = "waiting"
  /\ mutex = "free"
  /\ mutex' = c
  /\ calls' = [calls EXCEPT ![c].state = "running", ![c].start = table]
  /\ UNCHANGED <<vars, codec, table, issued, app>>

\* the observation of one request executed
Done(request, o) ==
  [request |-> request, ok |-> o.ok, executed |-> o.executed,
   engine |-> o.engine, rows |-> o.rows]

\* mutant: the loop of the batch goes on after a request has failed
ExecuteNext_keepGoing(c) ==
  /\ calls[c].state = "running"
  /\ calls[c].next <= Len(calls[c].queries)
  /\ LET request == calls[c].queries[calls[c].next]
         o == execute_sql_internal(table, request)
     IN  /\ table' = o.table
         /\ calls' = [calls EXCEPT
              ![c].done = Append(@, Done(request, o)),
              ![c].next = @ + 1,
              ![c].results = IF o.ok THEN Append(@, [rows |-> o.rows]) ELSE @,
              ![c].failed = @ \/ ~o.ok,
              ![c].err = IF o.ok \/ calls[c].failed THEN @ ELSE o.err]
  /\ UNCHANGED <<vars, codec, mutex, issued, app>>

\* execute_sql_internal(&pool, request).await on the next request of the
\* command: its response is collected, or its error ends the loop
ExecuteNext(c) ==
  /\ calls[c].state = "running"
  /\ ~calls[c].failed
  /\ calls[c].next <= Len(calls[c].queries)
  /\ LET request == calls[c].queries[calls[c].next]
         o == execute_sql_internal(table, request)
     IN  /\ table' = o.table
         /\ calls' = [calls EXCEPT
              ![c].done = Append(@, Done(request, o)),
              ![c].next = IF o.ok THEN @ + 1 ELSE @,
              ![c].results = IF o.ok THEN Append(@, [rows |-> o.rows]) ELSE @,
              ![c].failed = ~o.ok,
              ![c].err = o.err]
  /\ UNCHANGED <<vars, codec, mutex, issued, app>>

\* mutant: the lock stays taken when the command returns an error
Return_heldOnError(c) ==
  /\ calls[c].state = "running"
  /\ calls[c].failed \/ calls[c].next > Len(calls[c].queries)
  /\ mutex' = IF calls[c].failed THEN mutex ELSE "free"
  /\ calls' = [calls EXCEPT ![c] =
       [NoCall EXCEPT !.state = "returned",
                      !.kind = calls[c].kind,
                      !.ret = IF calls[c].failed THEN ReturnErr(calls[c].err)
                              ELSE ReturnOk(calls[c].results)]]
  /\ UNCHANGED <<vars, codec, table, issued, app>>

\* the command returns, Ok with what it collected or the error; the guard
\* of the lock is dropped
Return(c) ==
  /\ calls[c].state = "running"
  /\ calls[c].failed \/ calls[c].next > Len(calls[c].queries)
  /\ mutex' = "free"
  /\ calls' = [calls EXCEPT ![c] =
       [NoCall EXCEPT !.state = "returned",
                      !.kind = calls[c].kind,
                      !.ret = IF calls[c].failed THEN ReturnErr(calls[c].err)
                              ELSE ReturnOk(calls[c].results)]]
  /\ UNCHANGED <<vars, codec, table, issued, app>>

execute_single_sql(c) == \E request \in Requests : Invoke(c, "single", <<request>>)
execute_batch_sql(c) == \E queries \in Batches : Invoke(c, "batch", queries)

AppReady == [stage |-> "ready", managed |-> TRUE, ran |-> 0]

\* the table when the commands start: empty, or with one row written by other
\* means whose v holds a blob that is not text (INSERT ... VALUES (x'FF'))
BridgeTables == {<<>>, <<[id |-> 1, v |-> NativeBlob(<<255>>)]>>}

BridgeInit ==
  /\ MigrationAtRest
  /\ codec = CodecAtRest
  /\ mutex = "free"
  /\ table \in BridgeTables
  /\ calls = [c \in Callers |-> NoCall]
  /\ issued = 0
  /\ app = AppReady

BridgeNext ==
  \E c \in Callers :
    \/ execute_single_sql(c)
    \/ execute_batch_sql(c)
    \/ Acquire(c)
    \/ ExecuteNext(c)
    \/ Return(c)

SpecBridge == BridgeInit /\ [][BridgeNext]_allvars

\* the scheduling of the runtime: while some command can take the lock,
\* execute its next request or return, one of them does
BridgeProgress == \E c \in Callers : Acquire(c) \/ ExecuteNext(c) \/ Return(c)
BridgeFairness == WF_allvars(BridgeProgress)

SpecBridgeFair == BridgeInit /\ [][BridgeNext]_allvars /\ BridgeFairness

\* ----------------------------------------------------- bridge: the properties
Running(c) == calls[c].state = "running"
\* the engine rows and the response of the i-th request of a command in progress
Names(row) == [j \in 1..Len(row) |-> row[j].name]
InsertsDone(c) ==
  Cardinality({i \in 1..Len(calls[c].done) :
                 calls[c].done[i].ok /\ calls[c].done[i].request.sql = "insert"})

\* C11: the response to every successful request whose method is "run" has
\* an empty row list, whatever the statement and whatever the engine returned.
C11_RunEmpty ==
  \A c \in Callers :
    /\ \A i \in 1..Len(calls[c].done) :
         (calls[c].done[i].ok /\ calls[c].done[i].request.method = "run")
           => calls[c].done[i].rows = <<>>
    /\ \A i \in 1..Len(calls[c].results) :
         calls[c].queries[i].method = "run" => calls[c].results[i].rows = <<>>

\* C11 witness: a SELECT sent with method "run" on a table that has rows has
\* succeeded, and its response is empty
C11_Witness ==
  \E c \in Callers : \E i \in 1..Len(calls[c].done) :
    /\ calls[c].done[i].ok
    /\ calls[c].done[i].request = SqlRequest("select", <<>>, "run")
    /\ Len(calls[c].done[i].engine) >= 1
    /\ calls[c].results[i].rows = <<>>

\* C12: every row of a response to a request that is not "run" has as many
\* values as columns, its columns are the engine's columns in the engine's
\* order, each value is the decoding of the cell at its position, and the
\* rows are the engine's rows in the engine's order.
C12_Aligned ==
  \A c \in Callers : \A i \in 1..Len(calls[c].results) :
    calls[c].queries[i].method # "run" =>
      LET resp == calls[c].results[i].rows
          eng == calls[c].done[i].engine
      IN  /\ Len(resp) = Len(eng)
          /\ \A k \in 1..Len(resp) :
               /\ Len(resp[k].columns) = Len(resp[k].rows)
               /\ resp[k].columns = Names(eng[k])
               /\ \A j \in 1..Len(eng[k]) :
                    resp[k].rows[j] = sqlx_value_to_json(eng[k][j].type, eng[k][j].cell)
               /\ resp[k].rows[1] = JInt(k)

\* C12 witness: a query has returned two rows, the first with a NULL cell
C12_Witness ==
  \E c \in Callers : \E i \in 1..Len(calls[c].results) :
    /\ calls[c].queries[i] = SqlRequest("select", <<>>, "all")
    /\ Len(calls[c].results[i].rows) = 2
    /\ calls[c].results[i].rows[1].columns = <<"id", "v">>
    /\ calls[c].results[i].rows[1].rows = <<JInt(1), JNull>>
    /\ calls[c].results[i].rows[2].rows[1] = JInt(2)

\* C13: a batch in progress has executed a prefix of its list, one request
\* at a time and in list order; once a request has failed it is the last one
\* executed, its error is the error of the command and the command returns
\* Err, which carries no response; the rows inserted by the requests before
\* it are in the table.
C13_Batch ==
  \A c \in Callers :
    /\ (Running(c) /\ calls[c].kind = "batch") =>
         LET done == calls[c].done
             n == Len(done)
         IN  /\ n <= Len(calls[c].queries)
             /\ \A i \in 1..n : done[i].request = calls[c].queries[i]
             /\ \A i \in 1..(n - 1) : done[i].ok
             /\ calls[c].failed <=> (n > 0 /\ ~done[n].ok)
             /\ calls[c].failed =>
                  /\ calls[c].next = n
                  /\ calls[c].err = execute_sql_internal(table, calls[c].queries[n]).err
                  /\ Len(calls[c].results) = n - 1
             /\ ~calls[c].failed => (calls[c].next = n + 1 /\ Len(calls[c].results) = n)
             /\ IsPrefix(calls[c].start, table)
             /\ Len(table) = Len(calls[c].start) + InsertsDone(c)
    /\ (calls[c].state = "returned" /\ calls[c].kind = "batch"
          /\ calls[c].ret.state = "err")
         => (calls[c].ret.results = <<>> /\ calls[c].ret.err # <<>>)

\* C13 witness: the second request of a batch has failed after its first
\* request inserted a row, which is in the table
C13_Witness ==
  \E c \in Callers :
    /\ Running(c) /\ calls[c].kind = "batch" /\ calls[c].failed
    /\ Len(calls[c].queries) = 2 /\ Len(calls[c].done) = 2
    /\ calls[c].queries[1].sql = "insert"
    /\ Len(table) = Len(calls[c].start) + 1

\* C13 second witness: the first request of a batch of two has failed and
\* the command has returned the error
C13_WitnessAbort ==
  \E c \in Callers :
    /\ calls[c].state = "returned" /\ calls[c].kind = "batch"
    /\ calls[c].ret = ReturnErr(NoSuchTableMissingMsg)
    /\ table = <<>>

\* C14: a command is executing only while its caller holds the lock, so at
\* most one command is between its first statement and its return at any
\* time, and a step that executes a statement is taken by the holder while
\* every other caller is idle, waiting or has returned.
C14_Serialized ==
  /\ \A c \in Callers : Running(c) => mutex = c
  /\ \A c, d \in Callers : (Running(c) /\ Running(d)) => c = d
  /\ \A c \in Callers : calls[c].done # <<>> => Running(c)

\* C14 witness: one caller is between the two statements of its batch while
\* the other has invoked a command and waits for the lock
C14_Witness ==
  \E c, d \in Callers :
    /\ c # d
    /\ Running(c) /\ calls[c].kind = "batch"
    /\ Len(calls[c].queries) = 2 /\ Len(calls[c].done) = 1
    /\ calls[d].state = "waiting"

\* C17: the lock is held only by a command in progress (a command that has
\* returned, with Ok or with Err, has released it), and every command that
\* waits for the lock gets it and returns.
C17_Available ==
  /\ [](\A c \in Callers : mutex = c => Running(c))
  /\ \A c \in Callers : (calls[c].state = "waiting") ~> (calls[c].state = "returned")

\* C17 witness: one caller's command has returned an error, and a command
\* of the other caller, which took the lock afterwards, has executed a
\* request successfully
C17_Witness ==
  \E c, d \in Callers :
    /\ c # d
    /\ calls[c].state = "returned" /\ calls[c].ret.state = "err"
    /\ Running(d) /\ Len(calls[d].done) = 1 /\ calls[d].done[1].ok
    /\ mutex = d

\* a cell whose decode fails: it holds a value that is not of the storage
\* class its column's type is read as, or a blob that is not UTF-8
CellFailure(type_name, cell) ==
  /\ cell.class # "null"
  /\ CASE type_name = "INTEGER" -> cell.class # "integer"
       [] type_name = "REAL" -> cell.class # "real"
       [] type_name = "BLOB" ->
            cell.class \notin {"blob", "text"} \/ ~from_utf8(cell.str).ok
       [] OTHER -> cell.class # "text"
\* the JSON value of what a cell holds
Plain(cell) ==
  CASE cell.class = "integer" -> JInt(cell.num)
    [] cell.class = "real" -> JFloat(cell.num)
    [] cell.class \in {"text", "blob"} -> JString(cell.str)
    [] OTHER -> JNull

\* C22: a request that is not "run" and whose result holds a cell that fails
\* to decode still succeeds; every row of its response has one value per
\* column, the value of a cell that fails is null, and every other cell of
\* every row has the value that it holds.
C22_FailSoft ==
  \A c \in Callers : \A i \in 1..Len(calls[c].done) :
    LET d == calls[c].done[i]
    IN  (d.request.method # "run"
           /\ \E k \in 1..Len(d.engine) : \E j \in 1..Len(d.engine[k]) :
                CellFailure(d.engine[k][j].type, d.engine[k][j].cell))
          => /\ d.ok
             /\ Len(calls[c].results) >= i
             /\ calls[c].results[i].rows = d.rows
             /\ Len(d.rows) = Len(d.engine)
             /\ \A k \in 1..Len(d.engine) :
                  /\ Len(d.rows[k].rows) = Len(d.engine[k])
                  /\ Len(d.rows[k].columns) = Len(d.engine[k])
                  /\ \A j \in 1..Len(d.engine[k]) :
                       d.rows[k].rows[j] =
                         IF CellFailure(d.engine[k][j].type, d.engine[k][j].cell)
                         THEN JNull
                         ELSE Plain(d.engine[k][j].cell)

\* C22 witness: a query has returned two rows; the blob of the first row's v
\* came back as null beside its id, and the second row has its id and text
C22_Witness ==
  \E c \in Callers : \E i \in 1..Len(calls[c].done) :
    /\ calls[c].done[i].request = SqlRequest("select", <<>>, "all")
    /\ Len(calls[c].done[i].engine) = 2
    /\ calls[c].done[i].engine[1][2].cell = NativeBlob(<<255>>)
    /\ Len(calls[c].results) >= i
    /\ Len(calls[c].results[i].rows) = 2
    /\ calls[c].results[i].rows[1].rows = <<JInt(1), JNull>>
    /\ calls[c].results[i].rows[2].rows = <<JInt(2), JString(<<49>>)>>

\* C23: the method only tells "run" from everything else. The last request a
\* command has executed, if it is a query whose method is not "run", has
\* succeeded or failed exactly as the same statement sent with "all" does on
\* this table and has the same rows: every row of the table, more than one for
\* "get" when the table has more, and likewise for a method that is not a
\* known one.
C23_GetAsAll ==
  \A c \in Callers :
    LET n == Len(calls[c].done)
    IN  (n > 0 /\ calls[c].done[n].request.method # "run"
           /\ calls[c].done[n].request.sql # "insert")
          => LET d == calls[c].done[n]
                 a == execute_sql_internal(table, [d.request EXCEPT !.method = "all"])
             IN  /\ d.ok = a.ok
                 /\ d.rows = a.rows
                 /\ d.ok => Len(d.rows) = Len(table)

\* C23 witness: a query sent with "get" has returned the two rows of the table
C23_Witness ==
  \E c \in Callers :
    /\ Len(calls[c].done) = 1
    /\ calls[c].done[1].request = SqlRequest("select", <<>>, "get")
    /\ calls[c].done[1].ok
    /\ Len(table) = 2
    /\ Len(calls[c].results[1].rows) = 2

\* ============================================================ the application
\* The setup closure of run() in lib.rs, the migration engine it calls, and
\* the commands of the callers once the state is managed. app.stage is where
\* the closure is, app.ran the calls of Migration::run() made by earlier
\* processes, app.managed whether app.manage(db_state) has happened.
AppStage(stage, managed, ran) == [stage |-> stage, managed |-> managed, ran |-> ran]

\* the migrations directories of this specification: .sql files of at most
\* one line
AppDirectories ==
  {d \in Directories : \A n \in DOMAIN d : n # FileBak /\ Len(d[n]) <= 1}

AppInit ==
  /\ dirExists \in BOOLEAN
  /\ dir \in (IF dirExists THEN AppDirectories ELSE {<<>>})
  /\ objects \in SUBSET Tables
  /\ tableReady = FALSE
  /\ ledger = <<>>
  /\ pc = "idle"
  /\ queue = <<>>
  /\ result = NoResult
  /\ runs = 0
  /\ log = <<>>
  /\ idem = FALSE
  /\ codec = CodecAtRest
  /\ mutex = "free"
  /\ table = <<>>
  /\ calls = [c \in Callers |-> NoCall]
  /\ issued = 0
  /\ app = AppStage("start", FALSE, 0)

ConnectFaults == {"none", "connect"}

\* up to the lock: the migrations directory must exist and
\* DatabaseState::new must succeed, otherwise setup returns the error
SetupConnect(fault) ==
  /\ app.stage = "start"
  /\ app' = IF ~dirExists \/ fault = "connect"
            THEN AppStage("failed", FALSE, runs)
            ELSE AppStage("connected", FALSE, runs)
  /\ UNCHANGED <<vars, codec, mutex, table, calls, issued>>

\* mutant: the migration is started without the lock
SetupLock_notTaken ==
  /\ app.stage = "connected"
  /\ app' = [app EXCEPT !.stage = "migrating"]
  /\ UNCHANGED <<vars, codec, mutex, table, calls, issued>>

\* let pool = db_state.pool.lock().await
SetupLock ==
  /\ app.stage = "connected"
  /\ mutex = "free"
  /\ mutex' = "setup"
  /\ app' = [app EXCEPT !.stage = "migrating"]
  /\ UNCHANGED <<vars, codec, table, calls, issued>>

\* migration.run().await: the call, its loop and its return
SetupRun ==
  /\ app.stage = "migrating"
  /\ \/ runs = app.ran /\ \E fault \in StartFaults : StartRun(fault)
     \/ \E fault \in StepFaults : StepFile(fault)
     \/ FinishRun

\* mutant: the guard of the lock outlives the closure
SetupReturned_guardKept ==
  /\ app.stage = "migrating"
  /\ runs > app.ran
  /\ pc = "idle"
  /\ app' = [app EXCEPT !.stage = IF result = Success THEN "migrated" ELSE "failed"]
  /\ UNCHANGED <<vars, codec, mutex, table, calls, issued>>

\* mutant: a failed run is logged and the closure goes on
SetupReturned_ignoreError ==
  /\ app.stage = "migrating"
  /\ runs > app.ran
  /\ pc = "idle"
  /\ mutex' = "free"
  /\ app' = [app EXCEPT !.stage = "migrated"]
  /\ UNCHANGED <<vars, codec, table, calls, issued>>

\* run() has returned: on Err the closure returns the error (the guard and
\* db_state are dropped), on Ok it drops the guard and returns db_state
SetupReturned ==
  /\ app.stage = "migrating"
  /\ runs > app.ran
  /\ pc = "idle"
  /\ mutex' = "free"
  /\ app' = [app EXCEPT !.stage = IF result = Success THEN "migrated" ELSE "failed"]
  /\ UNCHANGED <<vars, codec, table, calls, issued>>

\* Ok(db_state) => app.manage(db_state): the commands can reach the state
SetupManage ==
  /\ app.stage = "migrated"
  /\ app' = [app EXCEPT !.stage = "ready", !.managed = TRUE]
  /\ UNCHANGED <<vars, codec, mutex, table, calls, issued>>

\* the process ends (setup failed, or the application is closed) and is
\* started again on the same database file and directory
Restart ==
  /\ app.stage \in {"failed", "ready"}
  /\ app' = AppStage("start", FALSE, runs)
  /\ mutex' = "free"
  /\ calls' = [c \in Callers |-> NoCall]
  /\ UNCHANGED <<vars, codec, table, issued>>

\* the commands the callers invoke in this specification: single requests
\* that write and read the table
AppRequests == {SqlRequest("insert", <<JNull>>, "run"), SqlRequest("select", <<>>, "all")}
AppCommand(c) == \E request \in AppRequests : Invoke(c, "single", <<request>>)

AppNext ==
  \/ \E fault \in ConnectFaults : SetupConnect(fault)
  \/ SetupLock
  \/ SetupRun
  \/ SetupReturned
  \/ SetupManage
  \/ Restart
  \/ \E c \in Callers :
       \/ AppCommand(c)
       \/ Acquire(c)
       \/ ExecuteNext(c)
       \/ Return(c)

SpecApp == AppInit /\ [][AppNext]_allvars

\* ------------------------------------------------ application: the properties
InProgress(c) == calls[c].state \in {"waiting", "running"}

\* C15: from the lock being taken until after run() has returned the setup
\* closure holds the lock, so the loop of run() only runs under it; a command
\* waits or executes only when no run is in progress, the lock is not the
\* closure's, and the last run has returned Ok.
C15_Exclusive ==
  /\ app.stage = "migrating" => mutex = "setup"
  /\ pc = "running" => (app.stage = "migrating" /\ mutex = "setup")
  /\ \A c \in Callers :
       InProgress(c) => (pc = "idle" /\ app.stage = "ready" /\ mutex # "setup"
                           /\ result = Success)

\* C15 witness: the loop of run() has applied a file and is at the next one,
\* under the lock, in a process started after callers of an earlier process
\* had used the database
C15_Witness ==
  /\ app.stage = "migrating" /\ pc = "running" /\ mutex = "setup"
  /\ Len(log) >= 1 /\ queue # <<>>
  /\ issued > 0

\* C16: the state is managed and the application ready only after run() has
\* returned Ok in this process; when run() has returned an error the closure
\* fails, nothing is managed, and no command is invoked, waits or executes.
C16_NotReady ==
  /\ app.managed <=> app.stage = "ready"
  /\ app.managed => (result = Success /\ runs > app.ran /\ pc = "idle")
  /\ (result.state = "err" /\ runs > app.ran) =>
       (app.stage \in {"migrating", "failed"} /\ ~app.managed)
  /\ \A c \in Callers : calls[c].state # "idle" => app.managed

\* C16 witness: run() applied one file and failed at the next; setup has
\* failed and nothing is managed
C16_Witness ==
  /\ app.stage = "failed" /\ ~app.managed
  /\ result.state = "err" /\ runs > app.ran
  /\ Len(log) = 2 /\ log[1].outcome = "applied" /\ log[2].outcome = "failed"
  /\ \A c \in Callers : calls[c].state = "idle"

\* ------------------------------------------------------- the life of the lock
\* One process from its setup closure to its commands, single and batch, on
\* a new database and a migrations directory that is missing, empty or holds
\* one file that creates a table; the runtime keeps scheduling the commands
\* that can take a step.
LockDirectories ==
  {d \in AppDirectories :
     \A n \in DOMAIN d : n = "0001.sql" /\ d[n] = <<[kind |-> "create", t |-> "a"]>>}

LockInit ==
  /\ AppInit
  /\ dir \in LockDirectories
  /\ objects = {}

LockNext ==
  \/ \E fault \in ConnectFaults : SetupConnect(fault)
  \/ SetupLock
  \/ SetupRun
  \/ SetupReturned
  \/ SetupManage
  \/ \E c \in Callers :
       \/ execute_single_sql(c)
       \/ execute_batch_sql(c)
       \/ Acquire(c)
       \/ ExecuteNext(c)
       \/ Return(c)

SpecLock == LockInit /\ [][LockNext]_allvars /\ BridgeFairness

\* C27: the lock is the closure's only while the startup migration is in
\* progress and a caller's exactly while its command executes (it is free
\* once either has returned, with success or with an error); it is only
\* taken when it is free, so never by its holder; and every command that
\* waits for the lock takes it, and every command that holds it returns.
C27_NoDeadlock ==
  /\ [](mutex = "setup" <=> app.stage = "migrating")
  /\ [](\A c \in Callers : mutex = c <=> Running(c))
  /\ [][(mutex' # mutex /\ mutex' # "free") => mutex = "free"]_allvars
  /\ \A c \in Callers : (calls[c].state = "waiting") ~> (mutex = c)
  /\ \A c \in Callers : (mutex = c) ~> (calls[c].state = "returned" /\ mutex # c)

\* C27 witness: after the startup migration applied a file under the lock,
\* one caller's batch has returned an error and the other caller, which was
\* waiting, holds the lock and has executed its request
C27_Witness ==
  \E c, d \in Callers :
    /\ c # d
    /\ app.stage = "ready" /\ Len(log) = 1 /\ log[1].outcome = "applied"
    /\ calls[d].state = "returned" /\ calls[d].kind = "batch"
    /\ calls[d].ret.state = "err"
    /\ mutex = c /\ Len(calls[c].done) = 1
====
